---------------------------- MODULE Spec2Model ----------------------------
(***************************************************************************)
(* A model of dml/data.py: the neighborhood builders, the uniform slice    *)
(* generator, and neighbor_stream with its per-bucket multiplexed streams  *)
(* and the batch assembler that create_stream puts on top of it.           *)
(*                                                                         *)
(* Four specifications share the module's variables:                       *)
(*   SpecNB     the neighborhood builders and population_filter            *)
(*   SpecSlice  one slice_cqt generator driven by next()                   *)
(*   Spec       create_stream: neighbor_stream behind buffer_batch         *)
(*   SpecFair   neighbor_stream driven by next() for ever, with the        *)
(*              fairness of its random choices                             *)
(***************************************************************************)
EXTENDS Integers, Sequences, FiniteSets, Bags, TLC

VARIABLES
    dframe,        \* the catalog: a sequence of rows, identifier = position
    nb_op,         \* the neighborhood operation called last
    nb_arg,        \* the neighbors argument of the last call (if it took one)
    nb_min,        \* the min_population argument of the last call (if it took one)
    nb_delta,      \* the pitch_delta argument of the last call (if it took one)
    nb_result,     \* the dict the last operation returned
    sl_pc,         \* slice_cqt generator: "new", "yielded" or "ValueError"
    num_obs,       \* data.shape[1] of the generator's array
    idx,           \* slice_cqt's idx: the current permutation (0-based values)
    counter,       \* slice_cqt's counter
    sl_n,          \* the position n of the observation yielded last
    sl_block,      \* positions yielded in the current block of num_obs draws
    sl_visits,     \* position -> number of times yielded so far
    sl_draws,      \* number of observations yielded so far
    neighbors,     \* neighbor_stream's neighbors: key -> list of identifiers
    working_size,  \* neighbor_stream's working_size
    batch_size,    \* create_stream's batch_size
    pc,            \* neighbor_stream: "new", "running", or how it stopped
    streams,       \* neighbor_stream's streams: key -> the bucket's multiplexer
    pulled,        \* key -> observations taken from streams[key] by the last next()
    eligible,      \* the keys the last next() chose its anchor from (line 309)
    x_in,          \* x_in of the triplet yielded last (NoObs before the first):
    x_same,        \*   the bucket key it was drawn from and its candidate;
    x_diff,        \*   likewise its x_same and its x_diff
    retired,       \* whether the draw of that x_in retired its generator
    ndraws,        \* number of triplets yielded so far
    buffer,        \* buffer_batch's buffer: the triplets waiting for a batch
    batch,         \* the batch yielded last (<<>> before the first)
    nbatches,      \* number of batches yielded so far
    sample_mode,   \* the key of SAMPLERS: "uniform" or "weighted"
    readable,      \* whether np.load reads the generator's archive
    amp,           \* the array, as its amplitude at each position of the sampled axis
    data_rows,     \* slice_embedding: data.shape[0], the rows of the embedding
    n_length,      \* slice_embedding: its n_length argument
    em_obs,        \* slice_embedding: the obs yielded last, as its row numbers
    unreadable,    \* the catalog entries whose archive np.load cannot read
    failed,        \* the draw in which np.load raised (NoFailure if none has)
    z_rows,        \* sample_embeddings: dataset entry -> rows of its z_out array
    num_points,    \* sample_embeddings: its num_points argument
    gens,          \* the slice_embedding generators started so far, each with
                   \*   its entry, idx, counter and its one meta dict's 'idx'
    active,        \* the multiplexer's active generators, as positions in gens
    points,        \* data: for each point sampled, its entry and its position
    labels,        \* labels: for each point, the meta dict appended (by generator)
    se_pc,         \* sample_embeddings: "sampling" or "returned"
    frame,         \* the DataFrame returned: for each point, its entry and idx
    loc,           \* awgn's loc argument (both stages)
    scale,         \* awgn's scale argument (both stages)
    source,        \* the batches of the stream under the two awgn stages,
                   \*   each as they were before the stages
    forwarded,     \* the batches the second awgn stage has yielded
    num_neighbors, \* knn_classify's num_neighbors list
    valid_score,   \* position in num_neighbors -> knn.score(x_valid, y_valid)
    kn_pc,         \* knn_classify: "loop" or "returned"
    kn_i,          \* number of passes of the loop over num_neighbors made
    knn,           \* the classifier bound to knn, by its position (0: unbound)
    best_knn,      \* the classifier bound to best_knn (0: None)
    best_score,    \* best_score
    used           \* result -> the classifier it was computed from

nbvars == <<nb_op, nb_arg, nb_min, nb_delta, nb_result>>
slvars == <<sl_pc, num_obs, idx, counter, sl_n, sl_block, sl_visits, sl_draws>>
stvars == <<neighbors, working_size, batch_size, pc, streams, pulled, eligible,
            x_in, x_same, x_diff, retired, ndraws, buffer, batch, nbatches>>
smvars == <<sample_mode, readable, amp>>
emvars == <<data_rows, n_length, em_obs>>
iovars == <<unreadable, failed>>
sevars == <<z_rows, num_points, gens, active, points, labels, se_pc, frame>>
awvars == <<loc, scale, source, forwarded>>
knvars == <<num_neighbors, valid_score, kn_pc, kn_i, knn, best_knn, best_score,
            used>>
xtvars == <<sevars, awvars, knvars>>
exvars == <<smvars, emvars, iovars, xtvars>>
vars == <<dframe, nbvars, slvars, stvars, exvars>>

---------------------------------------------------------------------------
(* Bounds of the model *)

MaxRows == 3
MaxPop == 3
Deltas == {0, 1}

Instruments == {"vn", "fl", "tp"}
Notes == {60, 61}

---------------------------------------------------------------------------
(* The catalog (index_directory's DataFrame): one row per entry; the row's  *)
(* index label is its position, so labels are unique.                       *)

Rows == [instrument : Instruments, note_number : Notes]

Catalogs == UNION {[1..n -> Rows] : n \in 0..MaxRows}

EmptyDict == [k \in {} |-> <<>>]

\* dframe[mask].index.tolist(): the labels of the rows the mask selects, in
\* the order of the frame.
RECURSIVE IndexTolist(_, _)
IndexTolist(mask, i) ==
    IF i > Len(mask) THEN <<>>
    ELSE (IF mask[i] THEN <<i>> ELSE <<>>) \o IndexTolist(mask, i + 1)

InstrumentUnique(df) == {df[r].instrument : r \in DOMAIN df}

NoteUnique(df) == {df[r].note_number : r \in DOMAIN df}

instrument_neighbors_neq(df) ==
    [i \in InstrumentUnique(df) |->
        IndexTolist([r \in DOMAIN df |-> df[r].instrument # i], 1)]

instrument_neighbors(df) ==
    [i \in InstrumentUnique(df) |->
        IndexTolist([r \in DOMAIN df |-> df[r].instrument = i], 1)]

pitch_neighbors(df) ==
    [nn \in NoteUnique(df) |->
        IndexTolist([r \in DOMAIN df |-> df[r].note_number = nn], 1)]

Abs(x) == IF x < 0 THEN -x ELSE x

\* "{}_{}".format(i, nn)
KeyFormat(i, nn) == i \o "_" \o ToString(nn)

\* nidx & iidx, with the pitch window exclusive of its ends
WindowMaskStrict(df, i, nn, pitch_delta) ==
    [r \in DOMAIN df |-> /\ Abs(df[r].note_number - nn) < pitch_delta
                         /\ df[r].instrument = i]

\* nidx & iidx: the rows of instrument i with a note number within
\* pitch_delta of nn
WindowMask(df, i, nn, pitch_delta) ==
    [r \in DOMAIN df |-> /\ Abs(df[r].note_number - nn) <= pitch_delta
                         /\ df[r].instrument = i]

\* c = (nidx & iidx).sum()
MaskSum(mask) == Cardinality({r \in DOMAIN mask : mask[r]})

\* the test of line 148, with >= for >
retain_geq(c, min_population) == c >= min_population

\* if c > min_population
retain(c, min_population) == c > min_population

\* instrument_pitch_neighbors' two loops over the (i, nn) pairs still to do,
\* nbs being the dict built so far (a key is written once: KeyFormat gives
\* different pairs different keys)
RECURSIVE InstrumentPitchLoop(_, _, _, _, _)
InstrumentPitchLoop(df, pairs, pitch_delta, min_population, nbs) ==
    IF pairs = {} THEN nbs
    ELSE LET p == CHOOSE x \in pairs : TRUE
             mask == WindowMask(df, p[1], p[2], pitch_delta)
         IN InstrumentPitchLoop(df, pairs \ {p}, pitch_delta, min_population,
                IF retain(MaskSum(mask), min_population)
                THEN [k \in DOMAIN nbs \cup {KeyFormat(p[1], p[2])} |->
                         IF k = KeyFormat(p[1], p[2]) THEN IndexTolist(mask, 1)
                         ELSE nbs[k]]
                ELSE nbs)

instrument_pitch_neighbors(df, pitch_delta, min_population) ==
    InstrumentPitchLoop(df, InstrumentUnique(df) \X NoteUnique(df),
                        pitch_delta, min_population, EmptyDict)

\* population_filter's loop over the keys, nbs being the dict built so far.
RECURSIVE FilterLoop(_, _, _, _)
FilterLoop(nbrs, keys, min_population, nbs) ==
    IF keys = {} THEN nbs
    ELSE LET k == CHOOSE x \in keys : TRUE
         IN FilterLoop(nbrs, keys \ {k}, min_population,
                       IF Len(nbrs[k]) >= min_population
                       THEN nbs @@ (k :> nbrs[k])
                       ELSE nbs)

RECURSIVE FilterLoopStrict(_, _, _, _)
FilterLoopStrict(nbrs, keys, min_population, nbs) ==
    IF keys = {} THEN nbs
    ELSE LET k == CHOOSE x \in keys : TRUE
         IN FilterLoopStrict(nbrs, keys \ {k}, min_population,
                             IF Len(nbrs[k]) > min_population
                             THEN nbs @@ (k :> nbrs[k])
                             ELSE nbs)

population_filter_strict(nbrs, min_population) ==
    FilterLoopStrict(nbrs, DOMAIN nbrs, min_population, EmptyDict)

population_filter(nbrs, min_population) ==
    FilterLoop(nbrs, DOMAIN nbrs, min_population, EmptyDict)

Members(list) == {list[j] : j \in DOMAIN list}

---------------------------------------------------------------------------
(* Idle values: what a specification leaves the other parts' variables at. *)

NBIdle ==
    /\ nb_op = "none"
    /\ nb_arg = EmptyDict
    /\ nb_min = 0
    /\ nb_delta = 0
    /\ nb_result = EmptyDict

SliceIdle ==
    /\ sl_pc = "new"
    /\ num_obs = 0
    /\ idx = <<>>
    /\ counter = 0
    /\ sl_n = -1
    /\ sl_block = <<>>
    /\ sl_visits = EmptyDict
    /\ sl_draws = 0

NoObs == [none |-> TRUE]

StreamIdle ==
    /\ neighbors = EmptyDict
    /\ working_size = 1
    /\ batch_size = 1
    /\ pc = "new"
    /\ streams = EmptyDict
    /\ pulled = EmptyDict
    /\ eligible = {}
    /\ x_in = NoObs
    /\ x_same = NoObs
    /\ x_diff = NoObs
    /\ retired = FALSE
    /\ ndraws = 0
    /\ buffer = <<>>
    /\ batch = <<>>
    /\ nbatches = 0

SamplerIdle ==
    /\ sample_mode = "uniform"
    /\ readable = TRUE
    /\ amp = <<>>

EmbedIdle ==
    /\ data_rows = 0
    /\ n_length = 1
    /\ em_obs = <<>>

NoFailure == [none |-> TRUE]

IOIdle ==
    /\ unreadable = {}
    /\ failed = NoFailure

SampleIdle ==
    /\ z_rows = <<>>
    /\ num_points = 0
    /\ gens = <<>>
    /\ active = <<>>
    /\ points = <<>>
    /\ labels = <<>>
    /\ se_pc = "sampling"
    /\ frame = <<>>

AwgnIdle ==
    /\ loc = 0
    /\ scale = 0
    /\ source = <<>>
    /\ forwarded = <<>>

KnnIdle ==
    /\ num_neighbors = <<>>
    /\ valid_score = <<>>
    /\ kn_pc = "loop"
    /\ kn_i = 0
    /\ knn = 0
    /\ best_knn = 0
    /\ best_score = -1
    /\ used = EmptyDict

XtIdle ==
    /\ SampleIdle
    /\ AwgnIdle
    /\ KnnIdle

ExIdle ==
    /\ SamplerIdle
    /\ EmbedIdle
    /\ IOIdle
    /\ XtIdle

---------------------------------------------------------------------------
(* SpecNB: the neighborhood builders, called on a catalog *)

NBInit ==
    /\ dframe \in Catalogs
    /\ NBIdle
    /\ SliceIdle
    /\ StreamIdle
    /\ ExIdle

CallInstrumentNeighbors ==
    /\ nb_op' = "instrument_neighbors"
    /\ nb_result' = instrument_neighbors(dframe)
    /\ nb_arg' = EmptyDict
    /\ nb_min' = 0
    /\ nb_delta' = 0
    /\ UNCHANGED <<dframe, slvars, stvars, exvars>>

CallPitchNeighbors ==
    /\ nb_op' = "pitch_neighbors"
    /\ nb_result' = pitch_neighbors(dframe)
    /\ nb_arg' = EmptyDict
    /\ nb_min' = 0
    /\ nb_delta' = 0
    /\ UNCHANGED <<dframe, slvars, stvars, exvars>>

CallInstrumentPitchNeighbors ==
    /\ \E pitch_delta \in Deltas : \E min_population \in 0..MaxPop :
        /\ nb_op' = "instrument_pitch_neighbors"
        /\ nb_delta' = pitch_delta
        /\ nb_min' = min_population
        /\ nb_result' = instrument_pitch_neighbors(dframe, pitch_delta,
                                                   min_population)
    /\ nb_arg' = EmptyDict
    /\ UNCHANGED <<dframe, slvars, stvars, exvars>>

\* population_filter applied to the neighborhood built (or filtered) last
CallPopulationFilter ==
    /\ nb_op # "none"
    /\ \E m \in 0..MaxPop :
        /\ nb_op' = "population_filter"
        /\ nb_arg' = nb_result
        /\ nb_min' = m
        /\ nb_result' = population_filter(nb_result, m)
    /\ nb_delta' = 0
    /\ UNCHANGED <<dframe, slvars, stvars, exvars>>

NBNext ==
    \/ CallInstrumentNeighbors
    \/ CallPitchNeighbors
    \/ CallInstrumentPitchNeighbors
    \/ CallPopulationFilter

SpecNB == NBInit /\ [][NBNext]_vars

\* C9: population_filter(neighbors, m) returns exactly the buckets with
\* len(members) >= m (so a bucket with len(members) = m is kept and one with
\* len(members) < m is removed), each with its member list unchanged.
C9_PopulationFilterExact ==
    nb_op = "population_filter" =>
        /\ DOMAIN nb_result = {k \in DOMAIN nb_arg : Len(nb_arg[k]) >= nb_min}
        /\ \A k \in DOMAIN nb_arg :
              /\ (k \notin DOMAIN nb_result) <=> (Len(nb_arg[k]) < nb_min)
              /\ Len(nb_arg[k]) = nb_min => k \in DOMAIN nb_result
        /\ \A k \in DOMAIN nb_result : nb_result[k] = nb_arg[k]

\* a filter call that kept a bucket of exactly nb_min members and removed another
C9_Witness ==
    /\ nb_op = "population_filter"
    /\ nb_min > 0
    /\ \E k \in DOMAIN nb_result : Len(nb_arg[k]) = nb_min
    /\ \E k \in DOMAIN nb_arg : k \notin DOMAIN nb_result

\* C10: the buckets of instrument_neighbors partition the catalog's
\* identifiers: their union is the full identifier set, every bucket is
\* non-empty, and no identifier is under two different instrument keys.
C10_InstrumentPartition ==
    nb_op = "instrument_neighbors" =>
        /\ UNION {Members(nb_result[k]) : k \in DOMAIN nb_result} = DOMAIN dframe
        /\ \A k \in DOMAIN nb_result : nb_result[k] # <<>>
        /\ \A k1, k2 \in DOMAIN nb_result :
              k1 # k2 => Members(nb_result[k1]) \cap Members(nb_result[k2]) = {}

\* a full catalog split over at least two instruments
C10_Witness ==
    /\ nb_op = "instrument_neighbors"
    /\ Len(dframe) = MaxRows
    /\ Cardinality(DOMAIN nb_result) >= 2
    /\ \E k \in DOMAIN nb_result : Len(nb_result[k]) >= 2

\* the entries of instrument i with a note number within nb_delta of nn
Window(i, nn) ==
    {r \in DOMAIN dframe :
        /\ dframe[r].instrument = i
        /\ dframe[r].note_number - nn <= nb_delta
        /\ nn - dframe[r].note_number <= nb_delta}

\* the (instrument, center note) pairs the builder loops over
Centers == InstrumentUnique(dframe) \X NoteUnique(dframe)

\* C11: the bucket of instrument_pitch_neighbors keyed by instrument i and
\* center note nn holds exactly the entries with instrument i and
\* |note_number - nn| <= pitch_delta, each once; with pitch_delta = 0 these
\* are exactly the entries with instrument i and note number nn.  Every key
\* of the result is the key of one (i, nn) pair only.
C11_WindowMembership ==
    nb_op = "instrument_pitch_neighbors" =>
        /\ \A k \in DOMAIN nb_result :
              \E p \in Centers : k = KeyFormat(p[1], p[2])
        /\ \A p, q \in Centers :
              KeyFormat(p[1], p[2]) = KeyFormat(q[1], q[2]) => p = q
        /\ \A p \in Centers :
              LET k == KeyFormat(p[1], p[2])
              IN k \in DOMAIN nb_result =>
                    /\ Members(nb_result[k]) = Window(p[1], p[2])
                    /\ Len(nb_result[k]) = Cardinality(Window(p[1], p[2]))
                    /\ nb_delta = 0 =>
                          Members(nb_result[k]) =
                              {r \in DOMAIN dframe :
                                  /\ dframe[r].instrument = p[1]
                                  /\ dframe[r].note_number = p[2]}

\* a window of pitch_delta = 1: a bucket holding entries of two note numbers,
\* in a catalog with an entry of another instrument, which it leaves out
C11_Witness ==
    /\ nb_op = "instrument_pitch_neighbors"
    /\ nb_delta = 1
    /\ \E k \in DOMAIN nb_result :
          /\ \E r1, r2 \in Members(nb_result[k]) :
                dframe[r1].note_number # dframe[r2].note_number
          /\ \E r \in DOMAIN dframe : r \notin Members(nb_result[k])

\* every window of the catalog, empty ones included: the builder's dict when
\* no bucket is dropped
AllWindows == [k \in {KeyFormat(p[1], p[2]) : p \in Centers} |->
                  LET p == CHOOSE q \in Centers : KeyFormat(q[1], q[2]) = k
                  IN IndexTolist([r \in DOMAIN dframe |-> r \in Window(p[1], p[2])], 1)]

\* C12: instrument_pitch_neighbors retains a bucket if and only if its member
\* count is strictly greater than min_population: a bucket with exactly
\* min_population members is absent, while population_filter with the same
\* threshold keeps it; with min_population = 0 no bucket of the result is
\* empty.
C12_StrictThreshold ==
    nb_op = "instrument_pitch_neighbors" =>
        /\ \A p \in Centers :
              LET k == KeyFormat(p[1], p[2])
                  c == Cardinality(Window(p[1], p[2]))
              IN /\ k \in DOMAIN nb_result <=> c > nb_min
                 /\ c = nb_min =>
                       /\ k \notin DOMAIN nb_result
                       /\ k \in DOMAIN population_filter(AllWindows, nb_min)
        /\ nb_min = 0 => \A k \in DOMAIN nb_result : nb_result[k] # <<>>

\* a threshold of one or more, with a window of exactly that many entries
\* (dropped) and a larger one (kept)
C12_Witness ==
    /\ nb_op = "instrument_pitch_neighbors"
    /\ nb_min >= 1
    /\ \E p \in Centers : Cardinality(Window(p[1], p[2])) = nb_min
    /\ \E p \in Centers : Cardinality(Window(p[1], p[2])) > nb_min
    /\ nb_result # EmptyDict

---------------------------------------------------------------------------
(* SpecSlice: one slice_cqt generator, each action one next() on it *)

MaxObs == 4

\* enough draws for two full blocks of the longest array, and one more
SliceDrawCap == 2 * MaxObs + 1

Positions(n) == 0..(n - 1)

\* np.random.permutation(n): the arrangements of 0..n-1
Permutation(n) ==
    {p \in [Positions(n) -> Positions(n)] :
        \A i, j \in Positions(n) : i # j => p[i] # p[j]}

\* a broken shuffle: every cell redrawn independently from the array's values
ShuffleResample(p) == [DOMAIN p -> {p[i] : i \in DOMAIN p}]

\* np.random.shuffle(idx): the rearrangements of idx's own elements
Shuffle(p) ==
    {[i \in DOMAIN p |-> p[s[i]]] : s \in Permutation(Cardinality(DOMAIN p))}

\* the bookkeeping of one yielded position n (history of the draws)
Yielded(n) ==
    /\ sl_n' = n
    /\ sl_draws' = sl_draws + 1
    /\ sl_block' = IF Len(sl_block) >= num_obs THEN <<n>> ELSE Append(sl_block, n)
    /\ sl_visits' = [sl_visits EXCEPT ![n] = @ + 1]

SliceInit ==
    /\ dframe = <<>>
    /\ NBIdle
    /\ StreamIdle
    /\ ExIdle
    /\ num_obs \in 0..MaxObs
    /\ sl_pc = "new"
    /\ idx = <<>>
    /\ counter = 0
    /\ sl_n = -1
    /\ sl_block = <<>>
    /\ sl_visits = [p \in Positions(num_obs) |-> 0]
    /\ sl_draws = 0

\* the first next(): the generator body runs from its top to the first yield
SliceFirst ==
    /\ sl_pc = "new"
    /\ IF num_obs > 0
       THEN \E p \in Permutation(num_obs) : \E q \in Shuffle(p) :
               /\ idx' = q
               /\ counter' = 0
               /\ sl_pc' = "yielded"
               /\ Yielded(q[0])
       ELSE /\ sl_pc' = "ValueError"
            /\ UNCHANGED <<idx, counter, sl_n, sl_block, sl_visits, sl_draws>>
    /\ UNCHANGED <<dframe, nbvars, stvars, exvars, num_obs>>

\* a later next(): resume after the yield, run to the next yield
SliceResume ==
    /\ sl_pc = "yielded"
    /\ sl_draws < SliceDrawCap
    /\ IF counter + 1 >= Cardinality(DOMAIN idx)
       THEN \E q \in Shuffle(idx) :
               /\ idx' = q
               /\ counter' = 0
               /\ Yielded(q[0])
       ELSE /\ idx' = idx
            /\ counter' = counter + 1
            /\ Yielded(idx[counter + 1])
    /\ UNCHANGED <<dframe, nbvars, stvars, exvars, num_obs, sl_pc>>

SliceNext ==
    \/ SliceFirst
    \/ SliceResume

SpecSlice == SliceInit /\ [][SliceNext]_vars

\* C2: a uniform-mode slice generator over num_obs > 0 positions yields, in
\* each consecutive block of num_obs draws counted from its first draw, every
\* position 0..num_obs-1 exactly once: no position repeats inside a block, and
\* after k*num_obs draws every position has been visited exactly k times
\* (once after num_obs draws, twice after 2*num_obs).
C2_EpochPermutation ==
    (sl_pc = "yielded" /\ num_obs > 0) =>
        /\ \A i, j \in DOMAIN sl_block : i # j => sl_block[i] # sl_block[j]
        /\ Members(sl_block) \subseteq Positions(num_obs)
        /\ Len(sl_block) = num_obs => Members(sl_block) = Positions(num_obs)
        /\ \A k \in 1..SliceDrawCap :
              sl_draws = k * num_obs =>
                  \A p \in Positions(num_obs) : sl_visits[p] = k

\* two full blocks drawn from an array of at least two positions
C2_Witness ==
    /\ sl_pc = "yielded"
    /\ num_obs >= 2
    /\ sl_draws = 2 * num_obs
    /\ \A p \in Positions(num_obs) : sl_visits[p] = 2

---------------------------------------------------------------------------
(* SpecSampler: one generator of SAMPLERS, slice_cqt ("uniform") or         *)
(* slice_cqt_weighted ("weighted"), each action one next() on it.  The      *)
(* archive's array has shape (1, T, F): T positions along the sampled axis  *)
(* (axis 1) and F >= 2 features; amp[p] is its amplitude at position p,     *)
(* summed over the features.                                                *)

Amplitudes == {0, 1}

Arrays == UNION {[Positions(n) -> Amplitudes] : n \in 0..MaxObs}

\* weights.sum()
RECURSIVE SumOver(_, _)
SumOver(a, ps) ==
    IF ps = {} THEN 0
    ELSE LET p == CHOOSE x \in ps : TRUE
         IN a[p] + SumOver(a, ps \ {p})

\* an argmax that answers position 0 for an array without positions
MultinomialArgmaxZero(a) ==
    IF DOMAIN a = {} THEN {[raises |-> FALSE, n |-> 0]}
    ELSE {[raises |-> FALSE, n |-> p] : p \in {q \in DOMAIN a : a[q] > 0}}

\* np.random.multinomial(1, weights).argmax(), weights being a / a.sum():
\* one position is drawn, with the probability its weight gives it.  Without
\* positions there is nothing to take the argmax of: ValueError.  With
\* positions but no amplitude the weights are 0/0, and what multinomial makes
\* of them depends on the numpy at hand: it raises, or it answers a position.
MultinomialArgmax(a) ==
    IF DOMAIN a = {} THEN {[raises |-> TRUE, n |-> -1]}
    ELSE IF SumOver(a, DOMAIN a) = 0
         THEN {[raises |-> TRUE, n |-> -1]}
                  \cup {[raises |-> FALSE, n |-> p] : p \in DOMAIN a}
         ELSE {[raises |-> FALSE, n |-> p] : p \in {q \in DOMAIN a : a[q] > 0}}

SamplerInit ==
    /\ dframe = <<>>
    /\ NBIdle
    /\ StreamIdle
    /\ EmbedIdle
    /\ IOIdle
    /\ XtIdle
    /\ sample_mode \in {"uniform", "weighted"}
    /\ readable \in BOOLEAN
    /\ amp \in Arrays
    /\ num_obs = Cardinality(DOMAIN amp)
    /\ sl_pc = "new"
    /\ idx = <<>>
    /\ counter = 0
    /\ sl_n = -1
    /\ sl_block = <<>>
    /\ sl_visits = [p \in Positions(num_obs) |-> 0]
    /\ sl_draws = 0

\* the first next() on either generator when np.load raises IOError: the
\* error is printed and raised again
LoadFails ==
    /\ sl_pc = "new"
    /\ ~readable
    /\ sl_pc' = "IOError"
    /\ UNCHANGED <<dframe, nbvars, stvars, exvars, num_obs, idx, counter, sl_n,
                   sl_block, sl_visits, sl_draws>>

UniformFirst ==
    /\ sample_mode = "uniform"
    /\ readable
    /\ SliceFirst

UniformResume ==
    /\ sample_mode = "uniform"
    /\ SliceResume

\* next() on slice_cqt_weighted: on the first the array is loaded and the
\* weights computed; each draws a position and yields
WeightedNext ==
    /\ sample_mode = "weighted"
    /\ readable
    /\ sl_pc \in {"new", "yielded"}
    /\ sl_draws < SliceDrawCap
    /\ \E o \in MultinomialArgmax(amp) :
          IF o.raises
          THEN /\ sl_pc' = "ValueError"
               /\ UNCHANGED <<sl_n, sl_draws>>
          ELSE /\ sl_pc' = "yielded"
               /\ sl_n' = o.n
               /\ sl_draws' = sl_draws + 1
    /\ UNCHANGED <<dframe, nbvars, stvars, exvars, num_obs, idx, counter,
                   sl_block, sl_visits>>

SamplerNext ==
    \/ LoadFails
    \/ UniformFirst
    \/ UniformResume
    \/ WeightedNext

SpecSampler == SamplerInit /\ [][SamplerNext]_vars

\* C13: over an array whose sampled axis has length zero, a slice generator
\* of either mode fails on the first next() with a ValueError, which is not
\* the IOError of an archive that cannot be read, and yields no observation.
C13_ZeroLengthFails ==
    /\ (readable /\ num_obs = 0 /\ sl_pc # "new") =>
          /\ sl_pc = "ValueError"
          /\ sl_draws = 0
          /\ sl_n = -1
    /\ (~readable /\ sl_pc # "new") => sl_pc = "IOError"

\* the weighted generator over an array without positions has failed
C13_Witness ==
    /\ sample_mode = "weighted"
    /\ readable
    /\ num_obs = 0
    /\ sl_pc = "ValueError"
    /\ sl_draws = 0

---------------------------------------------------------------------------
(* SpecEmbed: one slice_embedding generator over an embedding of data_rows  *)
(* rows, each action one next() on it.                                      *)

MaxRun == 2

\* a count of positions that leaves the run length out
EmbedNumObsRows(rows, len) == rows

\* num_obs = data.shape[0] + 1 - n_length
EmbedNumObs(rows, len) == rows + 1 - len

\* data[n:n + n_length]: the rows from n up to n + n_length, as far as the
\* array has them
RowSlice(rows, n, len) ==
    LET stop == IF n + len < rows THEN n + len ELSE rows
    IN [j \in 1..(stop - n) |-> n + j - 1]

EmbedInit ==
    /\ dframe = <<>>
    /\ NBIdle
    /\ StreamIdle
    /\ SamplerIdle
    /\ IOIdle
    /\ XtIdle
    /\ data_rows \in 0..MaxObs
    /\ n_length \in 1..MaxRun
    /\ em_obs = <<>>
    /\ num_obs = EmbedNumObs(data_rows, n_length)
    /\ sl_pc = "new"
    /\ idx = <<>>
    /\ counter = 0
    /\ sl_n = -1
    /\ sl_block = <<>>
    /\ sl_visits = [p \in Positions(num_obs) |-> 0]
    /\ sl_draws = 0

\* the first next(): the generator body runs from its top to the first yield
EmbedFirst ==
    /\ sl_pc = "new"
    /\ IF num_obs > 0
       THEN \E p \in Permutation(num_obs) : \E q \in Shuffle(p) :
               /\ idx' = q
               /\ counter' = 0
               /\ sl_pc' = "yielded"
               /\ em_obs' = RowSlice(data_rows, q[0], n_length)
               /\ Yielded(q[0])
       ELSE /\ sl_pc' = "ValueError"
            /\ UNCHANGED <<idx, counter, sl_n, sl_block, sl_visits, sl_draws,
                           em_obs>>
    /\ UNCHANGED <<dframe, nbvars, stvars, smvars, iovars, xtvars, num_obs, data_rows,
                   n_length>>

\* a later next(): resume after the yield, run to the next yield
EmbedResume ==
    /\ sl_pc = "yielded"
    /\ sl_draws < SliceDrawCap
    /\ IF counter + 1 >= Cardinality(DOMAIN idx)
       THEN \E q \in Shuffle(idx) :
               /\ idx' = q
               /\ counter' = 0
               /\ em_obs' = RowSlice(data_rows, q[0], n_length)
               /\ Yielded(q[0])
       ELSE /\ idx' = idx
            /\ counter' = counter + 1
            /\ em_obs' = RowSlice(data_rows, idx[counter + 1], n_length)
            /\ Yielded(idx[counter + 1])
    /\ UNCHANGED <<dframe, nbvars, stvars, smvars, iovars, xtvars, num_obs, sl_pc,
                   data_rows, n_length>>

EmbedNext ==
    \/ EmbedFirst
    \/ EmbedResume

SpecEmbed == EmbedInit /\ [][EmbedNext]_vars

\* the valid start positions of a run of n_length rows
Starts == {n \in 0..data_rows : n + n_length <= data_rows}

\* C17: slice_embedding over R = data_rows rows: if R + 1 - n_length <= 0 the
\* first next() fails and nothing is yielded; otherwise every run yielded
\* starts at an n with 0 <= n and n + n_length <= R and is exactly the
\* n_length rows n .. n + n_length - 1 (no padding), and each consecutive
\* block of R + 1 - n_length draws visits every valid start exactly once.
C17_EmbeddingRuns ==
    /\ (data_rows + 1 - n_length <= 0 /\ sl_pc # "new") =>
          /\ sl_pc = "ValueError"
          /\ sl_draws = 0
          /\ em_obs = <<>>
    /\ sl_pc = "yielded" =>
          /\ data_rows + 1 - n_length > 0
          /\ 0 <= sl_n
          /\ sl_n + n_length <= data_rows
          /\ em_obs = [j \in 1..n_length |-> sl_n + j - 1]
          /\ \A i, j \in DOMAIN sl_block : i # j => sl_block[i] # sl_block[j]
          /\ Members(sl_block) \subseteq Starts
          /\ Len(sl_block) = data_rows + 1 - n_length => Members(sl_block) = Starts
          /\ \A k \in 1..SliceDrawCap :
                sl_draws = k * (data_rows + 1 - n_length) =>
                    \A p \in Starts : sl_visits[p] = k

\* runs of two rows: two full blocks drawn, the last run ending at the last row
C17_Witness ==
    /\ sl_pc = "yielded"
    /\ n_length = 2
    /\ data_rows >= 3
    /\ sl_draws = 2 * (data_rows - 1)
    /\ em_obs = <<data_rows - 2, data_rows - 1>>

---------------------------------------------------------------------------
(* Spec: create_stream, i.e. neighbor_stream behind buffer_batch.  Each     *)
(* step is one pass of buffer_batch's loop: one next() on neighbor_stream   *)
(* (on the first, the generator body first builds the streams), the triplet *)
(* appended to the buffer, and the batch yielded when the buffer is full.   *)

MaxWorking == 2
MaxBatch == 2
MaxDraws == 4

Min(x, y) == IF x < y THEN x ELSE y

\* Instrument codes and note numbers are interchangeable names: a catalog
\* given to a stream names them in the order of their first appearance.
InOrder(col, names) ==
    \A r \in DOMAIN col : \A j \in 2..Len(names) :
        col[r] = names[j] => \E q \in 1..(r - 1) : col[q] = names[j - 1]

\* The catalogs a stream is created on.  A neighborhood mode reads one column
\* only, so the other column is held at one value.
StreamCatalogs(neighbor_mode) ==
    IF neighbor_mode = "instrument"
    THEN {df \in Catalogs :
            /\ \A r \in DOMAIN df : df[r].note_number = 60
            /\ InOrder([r \in DOMAIN df |-> df[r].instrument], <<"vn", "fl", "tp">>)}
    ELSE {df \in Catalogs :
            /\ \A r \in DOMAIN df : df[r].instrument = "vn"
            /\ InOrder([r \in DOMAIN df |-> df[r].note_number], <<60, 61>>)}

\* NEIGHBORS.get(neighbor_mode)(dataset): the table of builders
NEIGHBORS(neighbor_mode, df) ==
    IF neighbor_mode = "instrument" THEN instrument_neighbors(df)
    ELSE pitch_neighbors(df)

\* a seed pool over the whole dataset instead of the bucket's indexes
seed_pool_dataset(nbrs, key) == DOMAIN dframe

\* a seed pool of the first identifier of the bucket only
seed_pool_first(nbrs, key) == {nbrs[key][1]}

\* seed_pool: one Streamer per identifier in the bucket's indexes
seed_pool(nbrs, key) == Members(nbrs[key])

\* the bag of the values of a finite function
BagOf(f) ==
    [c \in {f[i] : i \in DOMAIN f} |-> Cardinality({i \in DOMAIN f : f[i] = c})]

\* pescador.mux(seed_pool, k=..., lam=...): the states a new multiplexer can
\* be in: the bag of its active generators, each named by its candidate;
\* min(k, number of candidates) of them, over candidates of the pool
\* (a candidate may be active more than once)
mux(pool, k) == {BagOf(f) : f \in [1..Min(k, Cardinality(pool)) -> pool]}

\* next() on a multiplexer m over pool: some active generator serves one
\* observation of its candidate.  Each generator has a random lifetime; the
\* draw that ends it (retired) has it replaced by a fresh generator over a
\* candidate of the pool, the same one or another.
MuxNext(m, pool) ==
    {[mux |-> IF x[2] THEN (m (-) SetToBag({x[1]})) (+) SetToBag({x[3]}) ELSE m,
      cand |-> x[1], retired |-> x[2], fresh |-> x[3]] :
        x \in {y \in BagToSet(m) \X BOOLEAN \X pool : ~y[2] => y[3] = y[1]}}

\* what of an outcome of MuxNext shows in the stream and its observation
Served(ds) == {[mux |-> d.mux, cand |-> d.cand] : d \in ds}

\* one multiplexer more than working_size wide
k_arg_plus_one(ws) == ws + 1

\* the k=working_size argument of the pescador.mux call
k_arg(ws) == ws

\* lines 302-307: the streams dict, one multiplexer per bucket
RECURSIVE BuildStreams(_, _, _)
BuildStreams(nbrs, keys, ws) ==
    IF keys = {} THEN {EmptyDict}
    ELSE LET key == CHOOSE x \in keys : TRUE
         IN {st @@ (key :> m) :
                st \in BuildStreams(nbrs, keys \ {key}, ws),
                m \in mux(seed_pool(nbrs, key), k_arg(ws))}

\* the keys of a list that is kept from pass to pass: without the anchor
\* that the pass before took out of it
ListKeysKept(st) ==
    IF x_in = NoObs THEN DOMAIN st ELSE DOMAIN st \ {x_in.key}

\* keys = list(streams.keys()): a new list at every pass of the loop
ListKeys(st) == DOMAIN st

\* keys left untouched: the anchor stays eligible as negative
remove_nothing(keys, key) == keys

\* keys.remove(idx)
remove(keys, key) == keys \ {key}

\* buffer_size + 1 passed for buffer_size
buffer_size_plus_one == batch_size + 1

\* the buffer_size=batch_size argument of pescador.buffer_batch
buffer_size == batch_size

ZeroPulled == [k \in DOMAIN neighbors |-> 0]

\* create_stream called in one of the neighbor modes
StreamStart(modes) ==
    /\ \E neighbor_mode \in modes :
          /\ dframe \in StreamCatalogs(neighbor_mode)
          /\ neighbors = NEIGHBORS(neighbor_mode, dframe)
    /\ NBIdle
    /\ SliceIdle
    /\ SamplerIdle
    /\ EmbedIdle
    /\ XtIdle
    /\ working_size \in 1..MaxWorking
    /\ batch_size \in 1..MaxBatch
    /\ pc = "new"
    /\ streams = EmptyDict
    /\ pulled = ZeroPulled
    /\ eligible = {}
    /\ x_in = NoObs
    /\ x_same = NoObs
    /\ x_diff = NoObs
    /\ retired = FALSE
    /\ ndraws = 0
    /\ buffer = <<>>
    /\ batch = <<>>
    /\ nbatches = 0

\* ... on a catalog whose archives can all be read
StreamInitIn(modes) ==
    /\ StreamStart(modes)
    /\ IOIdle

StreamInit == StreamInitIn({"instrument", "pitch"})

\* the streams the loop body starts from: built on the first next()
StreamsAtLoop ==
    IF pc = "new" THEN BuildStreams(neighbors, DOMAIN neighbors, working_size)
    ELSE {streams}

\* an exception leaves neighbor_stream (and any generator consuming it)
Raise(how, st, took) ==
    /\ pc' = how
    /\ streams' = st
    /\ pulled' = took
    /\ buffer' = <<>>
    /\ UNCHANGED <<x_in, x_same, x_diff, retired, ndraws, batch, nbatches>>

\* random.choice of an empty list
RaiseIndexError(how, st, took) ==
    /\ Raise(how, st, took)
    /\ UNCHANGED failed

\* a candidate's archive is always read
LoadsAlways(cand) == TRUE

\* np.load(row.features) of the candidate's generator, on its first next():
\* it reads the archive, or raises IOError
Loads(cand) == cand \notin unreadable

\* the IOError of the generator of cand, raised again at line 200, leaves
\* the multiplexer of bucket key and then neighbor_stream, neither catching
\* it; at names the observation that was being drawn
RaiseIOError(key, cand, at, st, took) ==
    /\ Raise("IOError", st, took)
    /\ failed' = [key |-> key, cand |-> cand, at |-> at, draw |-> ndraws]

\* pescador.buffer_batch: the triplet, the ndraws-th, is appended to the
\* buffer, and the batch is yielded when the buffer holds buffer_size triplets
BufferBatch ==
    /\ ndraws' = ndraws + 1
    /\ LET buf == Append(buffer, ndraws)
       IN IF Len(buf) >= buffer_size
          THEN /\ batch' = buf
               /\ buffer' = <<>>
               /\ nbatches' = nbatches + 1
          ELSE /\ buffer' = buf
               /\ UNCHANGED <<batch, nbatches>>

\* the caller takes the triplets from neighbor_stream itself
Direct == UNCHANGED <<ndraws, buffer, batch, nbatches>>

\* the triplet is yielded, the streams being st
Yield(st, batched) ==
    /\ pc' = "running"
    /\ streams' = st
    /\ UNCHANGED failed
    /\ IF batched THEN BufferBatch ELSE Direct

Obs(key, d) == [key |-> key, cand |-> d.cand]

\* the loop body (lines 309-318) from streams st0, with anchor key a and d1
\* the outcome of next(streams[a]) for x_in.  (The negative key b depends on
\* a alone, so it is named before the draws; the draws keep the code's order.
\* A draw can fail with IOError only where some archive is unreadable.)
LoopBody(st0, a, d1, batched) ==
    LET keys == remove(ListKeys(st0), a)
        took1 == [ZeroPulled EXCEPT ![a] = 1]
        took2 == [ZeroPulled EXCEPT ![a] = 2]
    IN \/ /\ ~Loads(d1.cand)
          /\ pc' = "IOError"
          /\ RaiseIOError(a, d1.cand, "x_in", st0, ZeroPulled)
       \/ /\ Loads(d1.cand)
          /\ unreadable # {}
          /\ pc' = "IOError"
          /\ \E d2 \in Served(MuxNext(d1.mux, seed_pool(neighbors, a))) :
                /\ ~Loads(d2.cand)
                /\ RaiseIOError(a, d2.cand, "x_same",
                                [st0 EXCEPT ![a] = d1.mux], took1)
       \/ /\ Loads(d1.cand)
          /\ keys = {}
          /\ pc' = "IndexError_negative"
          /\ \E d2 \in Served(MuxNext(d1.mux, seed_pool(neighbors, a))) :
                /\ Loads(d2.cand)
                /\ RaiseIndexError("IndexError_negative",
                                   [st0 EXCEPT ![a] = d2.mux], took2)
       \/ /\ Loads(d1.cand)
          /\ \E b \in keys :
             \/ /\ unreadable # {}
                /\ pc' = "IOError"
                /\ \E d2 \in Served(MuxNext(d1.mux, seed_pool(neighbors, a))) :
                   /\ Loads(d2.cand)
                   /\ LET st1 == [st0 EXCEPT ![a] = d2.mux]
                      IN \E d3 \in Served(MuxNext(st1[b], seed_pool(neighbors, b))) :
                            /\ ~Loads(d3.cand)
                            /\ RaiseIOError(b, d3.cand, "x_diff", st1, took2)
             \/ /\ pulled' = [took2 EXCEPT ![b] = @ + 1]
                /\ x_in' = Obs(a, d1)
                /\ retired' = d1.retired
                /\ \E d2 \in Served(MuxNext(d1.mux, seed_pool(neighbors, a))) :
                      /\ Loads(d2.cand)
                      /\ x_same' = Obs(a, d2)
                      /\ LET st1 == [st0 EXCEPT ![a] = d2.mux]
                         IN \E d3 \in Served(MuxNext(st1[b], seed_pool(neighbors, b))) :
                               /\ Loads(d3.cand)
                               /\ x_diff' = Obs(b, d3)
                               /\ Yield([st1 EXCEPT ![b] = d3.mux], batched)

\* next() on neighbor_stream while it is alive
NeighborNext(batched) ==
    /\ pc \in {"new", "running"}
    /\ \E st0 \in StreamsAtLoop :
          /\ eligible' = ListKeys(st0)
          /\ IF ListKeys(st0) = {}
             THEN RaiseIndexError("IndexError_anchor", st0, ZeroPulled)
             ELSE \E a \in ListKeys(st0) :
                  \E d1 \in MuxNext(st0[a], seed_pool(neighbors, a)) :
                      LoopBody(st0, a, d1, batched)
    /\ UNCHANGED <<dframe, nbvars, slvars, smvars, emvars, xtvars, unreadable,
                   neighbors,
                   working_size, batch_size>>

\* next() on a generator that has raised: it is finished
NextAfterRaise ==
    /\ pc \in {"IndexError_anchor", "IndexError_negative", "IOError"}
    /\ pc' = "StopIteration"
    /\ pulled' = ZeroPulled
    /\ UNCHANGED <<dframe, nbvars, slvars, exvars, neighbors, working_size,
                   batch_size, eligible,
                   streams, x_in, x_same, x_diff, retired, ndraws, buffer,
                   batch, nbatches>>

\* one pass of buffer_batch's loop
BatchPull ==
    /\ ndraws < MaxDraws
    /\ NeighborNext(TRUE)

Next ==
    \/ BatchPull
    \/ NextAfterRaise

Spec == StreamInit /\ [][Next]_vars

\* the observations of the triplet yielded last
LastObs == {x_in, x_same, x_diff}

\* C1: in every triplet neighbor_stream yields, after any number of earlier
\* draws, x_in and x_same come from the multiplexed stream of one and the same
\* bucket key, and x_diff comes from the stream of a different bucket key.
C1_SameAndDifferentBucket ==
    x_in # NoObs =>
        /\ x_in.key \in DOMAIN neighbors
        /\ x_diff.key \in DOMAIN neighbors
        /\ x_same.key = x_in.key
        /\ x_diff.key # x_in.key
        /\ \A o \in LastObs : o.cand \in Members(neighbors[o.key])
        /\ pulled[x_in.key] = 2
        /\ pulled[x_diff.key] = 1

\* a later triplet of a stream over three buckets
C1_Witness ==
    /\ x_in # NoObs
    /\ ndraws >= 2
    /\ Cardinality(DOMAIN neighbors) >= 3
    /\ x_diff.key # x_in.key

\* C3: with exactly one bucket, every attempt to draw a triplet raises: the
\* first at the negative-bucket selection, after which the generator is
\* finished; no triplet is ever yielded, so none has its x_diff from the
\* anchor bucket.
C3_OneBucketRaises ==
    Cardinality(DOMAIN neighbors) = 1 =>
        /\ pc \in {"new", "IndexError_negative", "StopIteration"}
        /\ x_in = NoObs
        /\ ndraws = 0
        /\ nbatches = 0

\* the one-bucket stream has raised at the negative-bucket selection
C3_Witness ==
    /\ Cardinality(DOMAIN neighbors) = 1
    /\ pc = "IndexError_negative"

\* C4: with fewer than two non-empty buckets the error is raised before the
\* sampling loop is entered: when the stream has raised, no observation has
\* been drawn from any bucket's multiplexed stream.
C4_DetectedBeforeSampling ==
    (Cardinality(DOMAIN neighbors) < 2 /\ pc \in {"IndexError_anchor", "IndexError_negative"}) =>
        \A k \in DOMAIN pulled : pulled[k] = 0

\* C5: the multiplexer built for a bucket never has more than working_size
\* active generators, and has exactly min(working_size, number of candidates
\* of the bucket), at every point of every sequence of draws.
C5_BoundedConcurrency ==
    pc # "new" =>
        /\ DOMAIN streams = DOMAIN neighbors
        /\ \A k \in DOMAIN streams :
              /\ BagCardinality(streams[k]) <= working_size
              /\ BagCardinality(streams[k]) = Min(working_size, Len(neighbors[k]))

\* after draws and a retirement, a bucket with more candidates than working_size
C5_Witness ==
    /\ pc = "running"
    /\ ndraws >= 2
    /\ retired
    /\ Len(neighbors[x_in.key]) > working_size
    /\ BagCardinality(streams[x_in.key]) = working_size

\* C7: the multiplexer over a bucket with exactly one candidate (working_size
\* >= 1) never ends and never serves anything else: at every point, after any
\* draws and retirements, next() on it has an outcome, every outcome is an
\* observation of that candidate, and so was every observation it gave.
C7_SingleCandidate ==
    \A k \in DOMAIN streams :
        Len(neighbors[k]) = 1 =>
            /\ MuxNext(streams[k], seed_pool(neighbors, k)) # {}
            /\ \A d \in MuxNext(streams[k], seed_pool(neighbors, k)) :
                  /\ d.cand = neighbors[k][1]
                  /\ d.fresh = neighbors[k][1]
            /\ x_in # NoObs =>
                  \A o \in LastObs : o.key = k => o.cand = neighbors[k][1]

\* the one-candidate bucket gave x_in, its generator was retired by that draw,
\* and x_same came from it again
C7_Witness ==
    /\ pc = "running"
    /\ ndraws >= 2
    /\ Len(neighbors[x_in.key]) = 1
    /\ retired
    /\ x_same.cand = neighbors[x_in.key][1]
    /\ Cardinality(DOMAIN dframe) >= 3

\* C8: the batch stream neither reorders nor drops draws: batch i (0-based)
\* is exactly the draws i*batch_size .. (i+1)*batch_size-1 of neighbor_stream
\* in arrival order, every batch has batch_size draws, and the draws not yet
\* in a batch wait in the buffer in arrival order.
C8_BatchesInOrder ==
    /\ nbatches = ndraws \div batch_size
    /\ nbatches > 0 =>
          /\ Len(batch) = batch_size
          /\ \A j \in 1..Len(batch) :
                batch[j] = (nbatches - 1) * batch_size + (j - 1)
    /\ Len(buffer) = ndraws % batch_size
    /\ \A j \in 1..Len(buffer) : buffer[j] = nbatches * batch_size + (j - 1)

\* the second batch of two draws
C8_Witness ==
    /\ batch_size = 2
    /\ nbatches = 2
    /\ batch = <<2, 3>>

---------------------------------------------------------------------------
(* SpecIO: create_stream over instrument buckets, on a catalog some of      *)
(* whose archives cannot be read.  A generator loads its archive on its     *)
(* first next(), so the failure shows in the draw that first takes an       *)
(* observation of the entry.  At most one archive is out of order.          *)

MaxIODraws == 2

IOInit ==
    /\ StreamStart({"instrument"})
    /\ unreadable \in {{}} \cup {{r} : r \in DOMAIN dframe}
    /\ failed = NoFailure

\* one pass of buffer_batch's loop
IOPull ==
    /\ ndraws < MaxIODraws
    /\ NeighborNext(TRUE)

IONext ==
    \/ IOPull
    \/ NextAfterRaise

SpecIO == IOInit /\ [][IONext]_vars

\* C14: an archive read failure inside a slice generator makes the draw that
\* triggered it fail at the caller of the stream, through the multiplexer,
\* neighbor_stream and the batch assembler: the triplet being drawn is not
\* yielded (the load is not tried again and no other candidate completes the
\* draw), the triplets waiting in the buffer go with it, and no observation
\* of any triplet comes from an entry whose archive cannot be read.
C14_ReadFailurePropagates ==
    /\ x_in # NoObs => \A o \in LastObs : o.cand \notin unreadable
    /\ pc = "IOError" => failed # NoFailure
    /\ failed # NoFailure =>
          /\ pc \in {"IOError", "StopIteration"}
          /\ failed.cand \in unreadable
          /\ failed.cand \in Members(neighbors[failed.key])
          /\ ndraws = failed.draw
          /\ nbatches = failed.draw \div batch_size
          /\ buffer = <<>>

\* the read failure came in a later draw, while x_diff was drawn, with a
\* triplet waiting in the buffer
C14_Witness ==
    /\ pc = "IOError"
    /\ failed # NoFailure
    /\ failed.at = "x_diff"
    /\ failed.draw >= 1
    /\ batch_size = 2
    /\ failed.draw % batch_size = 1
    /\ \E c \in DOMAIN dframe : c \notin unreadable

\* next() on the stream that yields a triplet
SuccessfulDraw == NeighborNext(TRUE) /\ pc' = "running"

\* every bucket has an entry whose archive can be read, and there are two
\* buckets or more
OthersReadable ==
    /\ Cardinality(DOMAIN neighbors) >= 2
    /\ \A k \in DOMAIN neighbors :
          \E c \in Members(neighbors[k]) : c \notin unreadable

\* C15: after a draw has failed because a candidate's archive could not be
\* read, the stream moves on: a later draw from the same neighbor_stream can
\* succeed, served from other candidates.
C15_MovesOn ==
    (failed # NoFailure /\ OthersReadable) => ENABLED SuccessfulDraw

\* C19: a triplet draw of neighbor_stream takes exactly two observations
\* from the anchor bucket's stream and exactly one from the negative bucket's,
\* a different one, and none from any other: the streams of the other
\* buckets are as they were.  The anchor's removal from the key list holds
\* for that draw only: at every draw the anchor is chosen from all the bucket
\* keys, and the streams dict keeps all of them.
C19_FrameOfADraw ==
    [][(pc \in {"new", "running"} /\ pc' = "running") =>
          /\ x_in'.key \in DOMAIN neighbors
          /\ x_diff'.key \in DOMAIN neighbors \ {x_in'.key}
          /\ pulled' = [k \in DOMAIN neighbors |->
                           IF k = x_in'.key THEN 2
                           ELSE IF k = x_diff'.key THEN 1 ELSE 0]
          /\ pc = "running" =>
                \A k \in DOMAIN neighbors \ {x_in'.key, x_diff'.key} :
                    streams'[k] = streams[k]
          /\ eligible' = DOMAIN neighbors
          /\ DOMAIN streams' = DOMAIN neighbors]_vars

\* a second draw of a stream over three buckets: one bucket gave nothing, and
\* the anchor was chosen from all three
C19_Witness ==
    /\ pc = "running"
    /\ ndraws >= 2
    /\ Cardinality(DOMAIN neighbors) = 3
    /\ eligible = DOMAIN neighbors
    /\ \E k \in DOMAIN neighbors : pulled[k] = 0
    /\ pulled[x_in.key] = 2
    /\ pulled[x_diff.key] = 1

---------------------------------------------------------------------------
(* SpecFair: neighbor_stream over its buckets, its caller taking triplets   *)
(* by next() for ever (no buffer_batch, so no draw is numbered).  Every     *)
(* random choice has, whenever it is open, a probability bounded away from  *)
(* zero, so a choice that stays open is made in the end: weak fairness, the *)
(* least the random draws give.                                             *)

\* next() in which the draw of x_in touches candidate x: it is an
\* observation of x, or it retires its generator and a fresh one over x
\* replaces it
Touches(x) ==
    /\ pc \in {"new", "running"}
    /\ pc' = "running"
    /\ \E st0 \in StreamsAtLoop :
       /\ eligible' = ListKeys(st0)
       /\ \E a \in ListKeys(st0) :
          /\ x \in seed_pool(neighbors, a)
          /\ \E b \in remove(ListKeys(st0), a) :
             /\ pulled' = [[ZeroPulled EXCEPT ![a] = 2] EXCEPT ![b] = @ + 1]
             /\ \E d1 \in MuxNext(st0[a], seed_pool(neighbors, a)) :
                /\ d1.cand = x \/ (d1.retired /\ d1.fresh = x)
                /\ Loads(d1.cand)
                /\ x_in' = Obs(a, d1)
                /\ retired' = d1.retired
                /\ \E d2 \in Served(MuxNext(d1.mux, seed_pool(neighbors, a))) :
                      /\ Loads(d2.cand)
                      /\ x_same' = Obs(a, d2)
                      /\ LET st1 == [st0 EXCEPT ![a] = d2.mux]
                         IN \E d3 \in Served(MuxNext(st1[b], seed_pool(neighbors, b))) :
                               /\ Loads(d3.cand)
                               /\ x_diff' = Obs(b, d3)
                               /\ streams' = [st1 EXCEPT ![b] = d3.mux]
    /\ UNCHANGED <<dframe, nbvars, slvars, smvars, emvars, xtvars, iovars,
                   neighbors, working_size, batch_size, ndraws, buffer, batch,
                   nbatches>>

\* a stream that can run (two buckets or more), one of its buckets holding
\* more candidates than working_size
FairInit ==
    /\ StreamInitIn({"instrument", "pitch"})
    /\ batch_size = 1
    /\ Cardinality(DOMAIN neighbors) >= 2
    /\ \E k \in DOMAIN neighbors : Len(neighbors[k]) > working_size

FairNext == NeighborNext(FALSE)

Fairness == \A x \in 1..MaxRows : WF_vars(Touches(x))

SpecFair == FairInit /\ [][FairNext]_vars /\ Fairness

\* candidate c has an observation in the triplet yielded last
Contributes(c) ==
    /\ x_in # NoObs
    /\ \E o \in LastObs : o.cand = c /\ c \in Members(neighbors[o.key])

\* c is a candidate of a bucket with more candidates than working_size, in a
\* stream that can run
Oversubscribed(c) ==
    /\ Cardinality(DOMAIN neighbors) >= 2
    /\ \E k \in DOMAIN neighbors :
          /\ Len(neighbors[k]) > working_size
          /\ c \in Members(neighbors[k])

\* C6: under fair random choices, every candidate of a bucket with more
\* candidates than working_size eventually becomes active in the bucket's
\* multiplexer and contributes an observation to its stream.
C6_EveryCandidateContributes ==
    \A c \in 1..MaxRows : Oversubscribed(c) ~> Contributes(c)

\* a candidate that was not active when the multiplexer was built has
\* contributed: here the bucket has two candidates and one active generator
C6_Witness ==
    /\ working_size = 1
    /\ \E k \in DOMAIN neighbors :
          /\ Len(neighbors[k]) = 2
          /\ Cardinality(DOMAIN neighbors) >= 2
          /\ x_in # NoObs
          /\ x_in.key = k
          /\ retired
          /\ x_same.cand # x_in.cand

---------------------------------------------------------------------------
(* SpecSample: sample_embeddings(dataset, num_points).  Its stream is       *)
(* create_embedding_stream's multiplexer over one slice_embedding generator *)
(* per dataset entry.  A generator makes its meta dict once (line 436) and  *)
(* at every pass of its loop sets meta['idx'] and yields that same dict     *)
(* (lines 442-443): a generator is modelled with the one 'idx' its dict     *)
(* holds, and a label as the generator whose dict it is.                    *)

MaxEntries == 2
MaxZRows == 2
MaxPoints == 3
MaxGens == 3

\* a Streamer over slice_embedding for a dataset entry, its body not yet run
NewGen(e) == [entry |-> e, started |-> FALSE, idx |-> <<>>, counter |-> 0,
              meta |-> -1]

\* next() on a slice_embedding generator with n_length=1: the generator after
\* the step, and the position n it yields
GenNext(g) ==
    LET n_obs == EmbedNumObs(z_rows[g.entry], 1)
        yield(q, c) == [gen |-> [entry |-> g.entry, started |-> TRUE, idx |-> q,
                                 counter |-> c, meta |-> q[c]],
                        n |-> q[c]]
    IN IF ~g.started
       THEN {yield(q, 0) : q \in UNION {Shuffle(p) : p \in Permutation(n_obs)}}
       ELSE IF g.counter + 1 >= n_obs
            THEN {yield(q, 0) : q \in Shuffle(g.idx)}
            ELSE {yield(g.idx, g.counter + 1)}

SampleInit ==
    /\ dframe = <<>>
    /\ NBIdle
    /\ SliceIdle
    /\ StreamIdle
    /\ SamplerIdle
    /\ EmbedIdle
    /\ IOIdle
    /\ AwgnIdle
    /\ KnnIdle
    /\ \E n_entries \in 1..MaxEntries :
          /\ z_rows \in [1..n_entries -> 1..MaxZRows]
          /\ \E f \in [1..Min(100, n_entries) -> 1..n_entries] :
                gens = [i \in DOMAIN f |-> NewGen(f[i])]
          /\ active = [i \in 1..Min(100, n_entries) |-> i]
    /\ num_points \in 1..MaxPoints
    /\ points = <<>>
    /\ labels = <<>>
    /\ se_pc = "sampling"
    /\ frame = <<>>

\* one pass of the loop at lines 483-486: coords, meta = next(stream);
\* the multiplexer has an active generator serve, and may then replace it
SampleDraw ==
    /\ se_pc = "sampling"
    /\ Len(labels) < num_points
    /\ \E s \in DOMAIN active : \E o \in GenNext(gens[active[s]]) :
          /\ points' = Append(points, [entry |-> o.gen.entry, pos |-> o.n])
          /\ labels' = Append(labels, active[s])
          /\ \/ /\ gens' = [gens EXCEPT ![active[s]] = o.gen]
                /\ active' = active
             \/ /\ Len(gens) < MaxGens
                /\ \E e \in DOMAIN z_rows :
                      gens' = Append([gens EXCEPT ![active[s]] = o.gen], NewGen(e))
                /\ active' = [active EXCEPT ![s] = Len(gens) + 1]
    /\ UNCHANGED <<dframe, nbvars, slvars, stvars, smvars, emvars, iovars,
                   awvars, knvars, z_rows, num_points, se_pc, frame>>

\* line 488: pd.DataFrame.from_records(labels) reads the dicts as they are now
SampleReturn ==
    /\ se_pc = "sampling"
    /\ Len(labels) = num_points
    /\ se_pc' = "returned"
    /\ frame' = [n \in 1..num_points |->
                    [entry |-> gens[labels[n]].entry, idx |-> gens[labels[n]].meta]]
    /\ UNCHANGED <<dframe, nbvars, slvars, stvars, smvars, emvars, iovars,
                   awvars, knvars, z_rows, num_points, gens, active, points,
                   labels>>

SampleNext ==
    \/ SampleDraw
    \/ SampleReturn

SpecSample == SampleInit /\ [][SampleNext]_vars

\* C18: every metadata record keeps describing its own observation: in what
\* sample_embeddings returns, the n-th label names the entry of the n-th
\* point and its idx is the position of the n-th point.
C18_LabelsDescribePoints ==
    se_pc = "returned" =>
        \A n \in 1..num_points :
            /\ frame[n].entry = points[n].entry
            /\ frame[n].idx = points[n].pos

---------------------------------------------------------------------------
(* SpecAwgn: awgn(awgn(stream, loc, scale), loc, scale) pulled batch by     *)
(* batch.  A batch is a dict of named tensors; a tensor is an array of      *)
(* whole-number cells.  The generators are lazy: one next() on the second   *)
(* stage takes one batch from the first, which takes one from the stream.   *)

MaxStream == 2

Names == {"x_in", "x_diff"}
Cells == {0, 1}
Locs == {-1, 0, 1}
Scales == {0, 1}

\* the batches of the stream: every name mapped to a tensor of one cell
Batches == [Names -> [{1} -> Cells]]

\* noise whose mean is zero whatever loc is
normal_zero_mean(l, s, shape) == [shape -> {0 - s, s}]

\* np.random.normal(loc, scale, shape): an array of that shape; with scale 0
\* every cell is loc, and with a positive scale a cell is any value about
\* loc, of which one below and one above stand for all
normal(l, s, shape) == [shape -> {l - s, l + s}]

\* lines 399-400 on one batch: data[k] += np.random.normal(...) for k in data
AddNoise(data, l, s) ==
    {[k \in DOMAIN data |-> [c \in DOMAIN data[k] |-> data[k][c] + nz[k][c]]] :
        nz \in [DOMAIN data -> normal(l, s, {1})]}

AwgnInit ==
    /\ dframe = <<>>
    /\ NBIdle
    /\ SliceIdle
    /\ StreamIdle
    /\ SamplerIdle
    /\ EmbedIdle
    /\ IOIdle
    /\ SampleIdle
    /\ KnnIdle
    /\ loc \in Locs
    /\ scale \in Scales
    /\ source \in UNION {[1..n -> Batches] : n \in 1..MaxStream}
    /\ forwarded = <<>>

\* one next() on the second stage: the next batch of the stream goes through
\* the first stage's loop body, then the second's, and is yielded
AwgnNext ==
    /\ Len(forwarded) < Len(source)
    /\ \E d1 \in AddNoise(source[Len(forwarded) + 1], loc, scale) :
       \E d2 \in AddNoise(d1, loc, scale) :
          forwarded' = Append(forwarded, d2)
    /\ UNCHANGED <<dframe, nbvars, slvars, stvars, smvars, emvars, iovars,
                   sevars, knvars, loc, scale, source>>

SpecAwgn == AwgnInit /\ [][AwgnNext]_vars

---------------------------------------------------------------------------
(* SpecKnn: knn_classify (evaluate.py), from its loop over num_neighbors to *)
(* the dict it returns.  A classifier is named by the position in           *)
(* num_neighbors of the pass that made it; its validation score is an input *)
(* (the same for two passes with the same k: fitting is deterministic).     *)

MaxNeighbors == 3

Ks == {1, 5, 9}
Scores == 0..2

\* the names of the test-set results and what they are computed with
Results == {"proba_test", "classes", "confusion_matrix", "class_labels",
            "train_score", "valid_score", "test_score"}

KnnInit ==
    /\ dframe = <<>>
    /\ NBIdle
    /\ SliceIdle
    /\ StreamIdle
    /\ SamplerIdle
    /\ EmbedIdle
    /\ IOIdle
    /\ SampleIdle
    /\ AwgnIdle
    /\ num_neighbors \in UNION {[1..n -> Ks] : n \in 1..MaxNeighbors}
    /\ \E score_of \in [Ks -> Scores] :
          valid_score = [i \in DOMAIN num_neighbors |-> score_of[num_neighbors[i]]]
    /\ kn_pc = "loop"
    /\ kn_i = 0
    /\ knn = 0
    /\ best_knn = 0
    /\ best_score = -1
    /\ used = EmptyDict

\* lines 28-34: one pass of the loop over num_neighbors
KnnLoop ==
    /\ kn_pc = "loop"
    /\ kn_i < Len(num_neighbors)
    /\ kn_i' = kn_i + 1
    /\ knn' = kn_i + 1
    /\ IF valid_score[kn_i + 1] > best_score
       THEN /\ best_knn' = kn_i + 1
            /\ best_score' = valid_score[kn_i + 1]
       ELSE UNCHANGED <<best_knn, best_score>>
    /\ UNCHANGED <<dframe, nbvars, slvars, stvars, smvars, emvars, iovars,
                   sevars, awvars, num_neighbors, valid_score, kn_pc, used>>

\* lines 38-56: the results, each with the classifier its line names
KnnReturn ==
    /\ kn_pc = "loop"
    /\ kn_i = Len(num_neighbors)
    /\ kn_pc' = "returned"
    /\ used' = [r \in Results |-> IF r = "proba_test" THEN knn ELSE best_knn]
    /\ UNCHANGED <<dframe, nbvars, slvars, stvars, smvars, emvars, iovars,
                   sevars, awvars, num_neighbors, valid_score, kn_i, knn,
                   best_knn, best_score>>

KnnNext ==
    \/ KnnLoop
    \/ KnnReturn

SpecKnn == KnnInit /\ [][KnnNext]_vars

\* the first position of num_neighbors whose validation score is the maximum
FirstBest ==
    CHOOSE i \in DOMAIN num_neighbors :
        /\ \A j \in DOMAIN num_neighbors : valid_score[j] <= valid_score[i]
        /\ \A j \in 1..(i - 1) : valid_score[j] < valid_score[i]

\* C20: knn_classify selects the first classifier in list order that attains
\* the maximum validation score, and every test-set result it returns is
\* computed from that classifier (or from one with the same number of
\* neighbors, which is fitted to the same data and gives the same results).
C20_ResultsFromSelected ==
    kn_pc = "returned" =>
        /\ best_knn = FirstBest
        /\ \A r \in Results : num_neighbors[used[r]] = num_neighbors[best_knn]

===========================================================================
